---- MODULE Spec2Model ----
(***************************************************************************)
(* A model of the MATLAB Level-5 .mat decoder (package matlab).            *)
(*                                                                         *)
(* Bytes are numbers 0..255 and byte strings are sequences of them.  A     *)
(* decoded scalar keeps its Go type and its bytes, most significant byte   *)
(* first, so that 64-bit values need no wide arithmetic.  Errors are       *)
(*   "nil"    no error                                                     *)
(*   "EOF"    an error whose text is exactly "EOF" (io.EOF)              *)
(*   "error"  any other returned error                                     *)
(*   "panic"  a Go panic                                                   *)
(***************************************************************************)
EXTENDS Integers, Sequences, FiniteSets, Bags, TLC

VARIABLES
    input,  \* what the bytes of the source were written from (never changes)
    r,      \* File.r: the byte source (its bytes, cursor and read behaviour)
    f,      \* the File (Header, hasReadAll, vars); NoFile before construction
    ret,    \* what the last call returned to its caller
    pass,   \* what File.readAll returned when it ran the full-decode pass
    calls,  \* number of calls made so far
    stack   \* the calls in progress of a pass that is followed turn by turn

vars == <<input, r, f, ret, pass, calls, stack>>

(***************************** byte strings ********************************)

Min(a, b) == IF a < b THEN a ELSE b

Zeros(n) == [i \in 1..n |-> 0]

\* Go's s[lo:hi] (0-based, hi exclusive) on a byte string.
Slice(s, lo, hi) == [i \in 1..(hi - lo) |-> s[lo + i]]

Rev(s) == [i \in 1..Len(s) |-> s[Len(s) + 1 - i]]

\* index (1-based) of the first c in s at or after position from, 0 if none
RECURSIVE IndexFrom(_, _, _)
IndexFrom(s, c, from) ==
    IF from > Len(s) THEN 0
    ELSE IF s[from] = c THEN from
    ELSE IndexFrom(s, c, from + 1)

IsSpace(b) == b \in {9, 10, 11, 12, 13, 32}

RECURSIVE TrimLeft(_)
TrimLeft(s) == IF s # <<>> /\ IsSpace(s[1]) THEN TrimLeft(Tail(s)) ELSE s

RECURSIVE TrimRightSpace(_)
TrimRightSpace(s) ==
    IF s # <<>> /\ IsSpace(s[Len(s)]) THEN TrimRightSpace(SubSeq(s, 1, Len(s) - 1)) ELSE s

\* strings.TrimSpace
TrimSpace(s) == TrimRightSpace(TrimLeft(s))

\* strings.TrimRight(s, ",")
RECURSIVE TrimRightComma(_)
TrimRightComma(s) ==
    IF s # <<>> /\ s[Len(s)] = 44 THEN TrimRightComma(SubSeq(s, 1, Len(s) - 1)) ELSE s

(******************************* byte order ********************************)

LittleEndian == "LittleEndian"
BigEndian == "BigEndian"

\* binary.LittleEndian.Uint16 of the first two bytes of b
LEUint16(b) == b[1] + 256 * b[2]

\* the 32-bit word of four bytes, most significant first; a word from 2^31 on
\* is not told apart from 2147483640: as a type code it is as unknown, as a
\* length as far beyond the end of every source here
Word32(b3, b2, b1, b0) ==
    IF b3 >= 128 THEN 2147483640 ELSE b0 + 256 * b1 + 65536 * b2 + 16777216 * b3

\* bo.Uint32 of the first four bytes of b
Uint32(bo, b) ==
    IF bo = LittleEndian THEN Word32(b[4], b[3], b[2], b[1]) ELSE Word32(b[1], b[2], b[3], b[4])

\* the n bytes of a scalar under byte order bo, most significant byte first
Ordered(bo, b, n) == IF bo = LittleEndian THEN Rev(SubSeq(b, 1, n)) ELSE SubSeq(b, 1, n)

(***************************** the byte source *****************************)

\* An io.Reader: data and cursor, the most bytes one Read call hands out
\* (chunk = 0: as many as asked for, like os.File or bytes.Buffer) and whether
\* the Read that hands out the last bytes reports io.EOF with them (as the
\* inflate stream does) or only the next one does; last is the error the
\* source ends with, "EOF" unless the stream is damaged.
NewReader(data, chunk, eager, last) ==
    [data |-> data, pos |-> 0, chunk |-> chunk, eager |-> eager, last |-> last]

\* bytes.NewBuffer(data)
NewBuffer(data) == NewReader(data, 0, FALSE, "EOF")

\* rdr.Read(buffer of p bytes), p > 0
Read(rdr, p) ==
    LET avail == Len(rdr.data) - rdr.pos
        n == IF rdr.chunk = 0 THEN Min(p, avail) ELSE Min(Min(p, rdr.chunk), avail)
    IN  [n |-> n,
         bytes |-> Slice(rdr.data, rdr.pos, rdr.pos + n),
         err |-> IF (n = 0) \/ (rdr.eager /\ n = avail) THEN rdr.last ELSE "nil",
         rdr |-> [rdr EXCEPT !.pos = rdr.pos + n]]

\* One turn of the loop of readAllBytes after its Read returned rd.  The
\* bytes returned are buf followed by fill zero bytes (the rest of the last
\* read buffer, which the code returns on an early end).
RECURSIVE readAllBytesLoop(_, _, _, _)
readAllBytesRead(p, buf, remaining, rd) ==
    IF rd.err = "error"
    THEN [buf |-> buf, fill |-> 0, err |-> "error", rdr |-> rd.rdr]
    ELSE IF rd.err = "EOF"
    THEN IF remaining - rd.n = 0
         THEN [buf |-> buf \o rd.bytes, fill |-> 0, err |-> "nil", rdr |-> rd.rdr]
         ELSE IF p = remaining
         THEN [buf |-> rd.bytes, fill |-> p - rd.n, err |-> "EOF", rdr |-> rd.rdr]
         ELSE [buf |-> rd.bytes, fill |-> p - rd.n, err |-> "error", rdr |-> rd.rdr]
    ELSE readAllBytesLoop(p, rd.rdr, buf \o rd.bytes, remaining - rd.n)

readAllBytesLoop(p, rdr, buf, remaining) ==
    IF remaining <= 0
    THEN [buf |-> buf, fill |-> 0, err |-> "nil", rdr |-> rdr]
    ELSE readAllBytesRead(p, buf, remaining, Read(rdr, p))

readAllBytes(p, rdr) == readAllBytesLoop(p, rdr, <<>>, p)

(******************************** the header *******************************)

headerLen == 128
headerTextLen == 116
headerSubsystemOffsetLen == 8
headerFlagLen == 4

TxtMATLAB == <<77,65,84,76,65,66,32>>                       \* "MATLAB "
Txt50 == <<53,46,48>>                                       \* "5.0"
LenMatFilePlatform == 19                                    \* len("MAT-file Platform: ")
LenCreatedOn == 13                                          \* len(" Created on: ")
LenDate == 24
TxtMI == <<77,73>>                                          \* "MI"
TxtIM == <<73,77>>                                          \* "IM"

\* time.ANSIC texts the model knows: "Mon Feb 18 17:12:08 2013", the same
\* instant under a weekday that does not match the date, and the zero time.
TsGood == <<77,111,110,32,70,101,98,32,49,56,32,49,55,58,49,50,58,48,56,32,50,48,49,51>>
TsWrongDay == <<84,117,101,32,70,101,98,32,49,56,32,49,55,58,49,50,58,48,56,32,50,48,49,51>>
TsZero == <<77,111,110,32,74,97,110,32,32,49,32,48,48,58,48,48,58,48,48,32,48,48,48,49>>

\* time.Parse(time.ANSIC, s): the instant, or the zero time.Time when s does
\* not parse.  Parse reads the weekday and does not hold the date to it.
ParseANSIC(s) ==
    IF s \in {TsGood, TsWrongDay} THEN "2013-02-18T17:12:08" ELSE "0001-01-01T00:00:00"

\* t.Format(time.ANSIC)
FormatANSIC(t) == IF t = "2013-02-18T17:12:08" THEN TsGood ELSE TsZero

NoOrder == "nil"

EmptyHeader == [Level |-> <<>>, Platform |-> <<>>, Created |-> "0001-01-01T00:00:00",
                Endianess |-> NoOrder]

\* Header.String
HeaderString(h) ==
    <<77,65,84,76,65,66,32>> \o h.Level
    \o <<32,77,65,84,45,102,105,108,101,44,32,80,108,97,116,102,111,114,109,58,32>>
    \o h.Platform
    \o <<44,32,67,114,101,97,116,101,100,32,111,110,58,32>> \o FormatANSIC(h.Created)

\* readHeader after the platform was read: " Created on: " and the date
readHeaderDate(buf, h, i4) ==
    IF Len(buf) - i4 < LenCreatedOn \/ Len(buf) - i4 - LenCreatedOn = 0
    THEN [h |-> h, err |-> "EOF"]
    ELSE [h |-> [h EXCEPT !.Created =
                    ParseANSIC(TrimSpace(
                        [i \in 1..LenDate |->
                            IF i4 + LenCreatedOn + i <= Len(buf)
                            THEN buf[i4 + LenCreatedOn + i] ELSE 0]))],
          err |-> "nil"]

\* readHeader after the level was read: the discarded text and the platform;
\* p3 bytes are consumed after the Discard, i4 is where the ',' is
readHeaderPlatform(buf, h, p3, i4) ==
    IF Len(buf) < p3 THEN [h |-> h, err |-> "EOF"]
    ELSE IF i4 = 0
    THEN [h |-> [h EXCEPT !.Platform = SubSeq(buf, p3 + 1, Len(buf))], err |-> "EOF"]
    ELSE readHeaderDate(buf, [h EXCEPT !.Platform = TrimRightComma(SubSeq(buf, p3 + 1, i4))], i4)

\* readHeader after the prefix was read: the level, which ends at space i2
readHeaderLevel(buf, i1, i2) ==
    IF i2 = 0
    THEN [h |-> [EmptyHeader EXCEPT !.Level = SubSeq(buf, i1 + 1, Len(buf))], err |-> "EOF"]
    ELSE IF TrimSpace(SubSeq(buf, i1 + 1, i2)) # Txt50
    THEN [h |-> [EmptyHeader EXCEPT !.Level = TrimSpace(SubSeq(buf, i1 + 1, i2))],
          err |-> "error"]
    ELSE readHeaderPlatform(buf, [EmptyHeader EXCEPT !.Level = TrimSpace(SubSeq(buf, i1 + 1, i2))],
                            i2 + LenMatFilePlatform,
                            IndexFrom(buf, 44, i2 + LenMatFilePlatform + 1))

\* the prefix, which ends at space i1
readHeaderPrefix(buf, i1) ==
    IF i1 = 0 THEN [h |-> EmptyHeader, err |-> "EOF"]
    ELSE IF SubSeq(buf, 1, i1) # TxtMATLAB THEN [h |-> EmptyHeader, err |-> "error"]
    ELSE readHeaderLevel(buf, i1, IndexFrom(buf, 32, i1 + 1))

\* The text part of readHeader, on the 116 description bytes: the Header as
\* far as it was filled in, and the error.
readHeaderText(buf) == readHeaderPrefix(buf, IndexFrom(buf, 32, 1))

\* the byte order marker, in the 4 flag bytes c read after the header h
readHeaderOrder(h, c) ==
    IF c.err # "nil" THEN [h |-> h, err |-> c.err, rdr |-> c.rdr]
    ELSE IF Slice(c.buf, 2, 4) = TxtMI
    THEN [h |-> [h EXCEPT !.Endianess = BigEndian], err |-> "nil", rdr |-> c.rdr]
    ELSE IF Slice(c.buf, 2, 4) = TxtIM
    THEN [h |-> [h EXCEPT !.Endianess = LittleEndian], err |-> "nil", rdr |-> c.rdr]
    ELSE [h |-> h, err |-> "error", rdr |-> c.rdr]

\* the subsystem offset b read after the header text
readHeaderOffset(h, b) ==
    IF b.err # "nil" THEN [h |-> h, err |-> b.err, rdr |-> b.rdr]
    ELSE readHeaderOrder(h, readAllBytes(headerFlagLen, b.rdr))

\* the header text t parsed from the bytes read from rdr
readHeaderParsed(t, rdr) ==
    IF t.err # "nil" THEN [h |-> t.h, err |-> t.err, rdr |-> rdr]
    ELSE readHeaderOffset(t.h, readAllBytes(headerSubsystemOffsetLen, rdr))

\* the description bytes a
readHeaderBytes(a) ==
    IF a.err # "nil" THEN [h |-> EmptyHeader, err |-> a.err, rdr |-> a.rdr]
    ELSE readHeaderParsed(readHeaderText(a.buf), a.rdr)

\* File.readHeader: the Header, the error and the byte source afterwards.
readHeader(rdr) == readHeaderBytes(readAllBytes(headerTextLen, rdr))

(******************************** data types *******************************)

DataTypeUnknown == 0
DTmiINT8 == 1
DTmiUINT8 == 2
DTmiINT16 == 3
DTmiUINT16 == 4
DTmiINT32 == 5
DTmiUINT32 == 6
DTmiSINGLE == 7
DTmiDOUBLE == 9
DTmiINT64 == 12
DTmiUINT64 == 13
DTmiMATRIX == 14
DTmiCOMPRESSED == 15
DTmiUTF8 == 16
DTmiUTF16 == 17
DTmiUTF32 == 18

\* DataType.NumBytes; 0 stands for its panic on a type without a width
NumBytes(d) ==
    IF d \in {DTmiINT8, DTmiUINT8, DTmiUTF8} THEN 1
    ELSE IF d \in {DTmiINT16, DTmiUINT16, DTmiUTF16} THEN 2
    ELSE IF d \in {DTmiINT32, DTmiUINT32, DTmiUTF32, DTmiSINGLE} THEN 4
    ELSE IF d \in {DTmiDOUBLE, DTmiINT64, DTmiUINT64} THEN 8
    ELSE 0

mxUNKNOWN == 0
mxCELL == 1
mxSTRUCT == 2
mxOBJECT == 3
mxCHAR == 4
mxSPARSE == 5
mxDOUBLE == 6
mxSINGLE == 7
mxINT8 == 8
mxUINT8 == 9
mxINT16 == 10
mxUINT16 == 11
mxINT32 == 12
mxUINT32 == 13
mxINT64 == 14
mxUINT64 == 15

(****************************** decoded values *****************************)

\* A Go scalar held in an interface{}: its dynamic type and its bytes, most
\* significant first (a rune: its code point).
Val(typ, bytes) == [typ |-> typ, bytes |-> bytes]

RuneError == 65533

\* utf8.DecodeRune(data), for one- and two-byte sequences
DecodeRune(data) ==
    IF data = <<>> THEN RuneError
    ELSE IF data[1] < 128 THEN data[1]
    ELSE IF /\ Len(data) >= 2 /\ data[1] \in 194..223 /\ data[2] \in 128..191
    THEN (data[1] - 192) * 64 + (data[2] - 128)
    ELSE RuneError

\* utf16.Decode of one code unit
DecodeUTF16(u) == IF u \in 55296..57343 THEN RuneError ELSE u

GoType(t) ==
    CASE t = DTmiINT8 -> "int8"
      [] t = DTmiUINT8 -> "uint8"
      [] t = DTmiINT16 -> "int16"
      [] t = DTmiUINT16 -> "uint16"
      [] t = DTmiINT32 -> "int32"
      [] t = DTmiUINT32 -> "uint32"
      [] t = DTmiSINGLE -> "float32"
      [] t = DTmiDOUBLE -> "float64"
      [] t = DTmiINT64 -> "int64"
      [] t = DTmiUINT64 -> "uint64"
      [] OTHER -> "rune"

NoVal == Val("nil", <<>>)

\* parseContent: one scalar from the first bytes of data
parseContent(t, bo, data) ==
    IF t \in {DTmiMATRIX, DTmiUTF32, DTmiCOMPRESSED} THEN [v |-> NoVal, err |-> "panic"]
    ELSE IF t = DTmiUTF8 THEN [v |-> Val("rune", <<DecodeRune(data)>>), err |-> "nil"]
    ELSE IF NumBytes(t) = 0 THEN [v |-> NoVal, err |-> "error"]
    ELSE IF Len(data) < NumBytes(t) THEN [v |-> NoVal, err |-> "panic"]
    ELSE IF t = DTmiUTF16
    THEN [v |-> Val("rune", <<DecodeUTF16(IF bo = LittleEndian
                                             THEN data[1] + 256 * data[2]
                                             ELSE data[2] + 256 * data[1])>>),
          err |-> "nil"]
    ELSE [v |-> Val(GoType(t), Ordered(bo, data, NumBytes(t))), err |-> "nil"]

RECURSIVE parseMultiLoop(_, _, _, _, _, _)
parseMultiItem(t, bo, data, len, i, res, c) ==
    IF c.err # "nil" THEN [value |-> <<>>, err |-> c.err]
    ELSE parseMultiLoop(t, bo, data, len, i + 1, Append(res, c.v))

parseMultiLoop(t, bo, data, len, i, res) ==
    IF i >= len THEN [value |-> res, err |-> "nil"]
    ELSE IF NumBytes(t) = 0 \/ (i + 1) * NumBytes(t) > Len(data)
    THEN [value |-> <<>>, err |-> "panic"]
    ELSE parseMultiItem(t, bo, data, len, i, res,
                        parseContent(t, bo, Slice(data, i * NumBytes(t), (i + 1) * NumBytes(t))))

parseMulti(t, bo, data, len) == parseMultiLoop(t, bo, data, len, 0, <<>>)

(********************************* elements ********************************)

\* An Element: a *smallDataElement ("sde"), a *subElement ("sub") or a
\* *Matrix ("matrix").  value is a sequence; one says that the Go value is a
\* single scalar and not a slice.
NoElement == [kind |-> "nil"]
SmallDataElement(typ, value) == [kind |-> "sde", typ |-> typ, value |-> value, one |-> FALSE]
SubElement(typ, v) == [kind |-> "sub", typ |-> typ, value |-> <<v>>, one |-> TRUE]
Flags(l, c, g) == [isLogical |-> l, isComplex |-> c, isGlobal |-> g]
Matrix(name, flags, class, dim, value) ==
    [kind |-> "matrix", Name |-> name, flags |-> flags, Class |-> class,
     Dimension |-> dim, value |-> value]

\* Element.Type
Type(el) == IF el.kind = "matrix" THEN DTmiMATRIX ELSE el.typ

\* padTo64Bit
padTo64Bit(p) == ((p \div 8) + (IF p % 8 # 0 THEN 1 ELSE 0)) * 8

\* what readTag returns: the small element, or the type and length of a
\* normal tag, the error, and the source afterwards
Tag(sde, typ, len, err, rdr) == [sde |-> sde, typ |-> typ, len |-> len, err |-> err, rdr |-> rdr]

\* readTag, small format: the content c that parseMulti made of the tag's last 4 bytes
readTagSmall(sdeType, c, rdr) ==
    IF c.err # "nil" THEN Tag(NoElement, DataTypeUnknown, 0, c.err, rdr)
    ELSE Tag(SmallDataElement(sdeType, c.value), DataTypeUnknown, 0, "nil", rdr)

\* readTag on the two 16-bit halves of the first word of the 8 bytes buf
readTagHalves(bo, buf, sdeLen, sdeType, rdr) ==
    IF sdeLen # 0
    THEN IF NumBytes(sdeType) = 0 THEN Tag(NoElement, DataTypeUnknown, 0, "panic", rdr)
         ELSE readTagSmall(sdeType,
                           parseMulti(sdeType, bo, Slice(buf, 4, Len(buf)),
                                      sdeLen \div NumBytes(sdeType)),
                           rdr)
    ELSE Tag(NoElement, Uint32(bo, Slice(buf, 0, 4)), Uint32(bo, Slice(buf, 4, 8)), "nil", rdr)

\* readTag on what readAllBytes(8) returned
readTagBytes(bo, a) ==
    IF a.err # "nil" THEN Tag(NoElement, DataTypeUnknown, 0, a.err, a.rdr)
    ELSE IF bo = BigEndian
    THEN readTagHalves(bo, a.buf, LEUint16(Slice(a.buf, 0, 2)), LEUint16(Slice(a.buf, 2, 4)), a.rdr)
    ELSE readTagHalves(bo, a.buf, LEUint16(Slice(a.buf, 2, 4)), LEUint16(Slice(a.buf, 0, 2)), a.rdr)

\* readTag
readTag(bo, rdr) == readTagBytes(bo, readAllBytes(8, rdr))

\* the flags and the class in the 16-bit word flagsAndClass
arrayFlagsWord(flagsAndClass, rdr) ==
    [flags |-> Flags(flagsAndClass \div 512 = 1, flagsAndClass \div 2048 = 1,
                     flagsAndClass \div 1024 = 1),
     class |-> flagsAndClass % 256, err |-> "nil", rdr |-> rdr]

\* arrayFlags on the 8 bytes a of the sub-element
arrayFlagsBytes(bo, a) ==
    IF a.err # "nil"
    THEN [flags |-> Flags(FALSE, FALSE, FALSE), class |-> mxUNKNOWN, err |-> a.err, rdr |-> a.rdr]
    ELSE IF bo = BigEndian THEN arrayFlagsWord(LEUint16(Slice(a.buf, 4, 6)), a.rdr)
    ELSE arrayFlagsWord(LEUint16(Slice(a.buf, 0, 2)), a.rdr)

\* arrayFlags on the tag t of the sub-element
arrayFlagsTag(bo, t) ==
    IF t.err # "nil"
    THEN [flags |-> Flags(FALSE, FALSE, FALSE), class |-> mxUNKNOWN, err |-> t.err, rdr |-> t.rdr]
    ELSE IF t.typ # DTmiUINT32 \/ t.len # 8
    THEN [flags |-> Flags(FALSE, FALSE, FALSE), class |-> mxUNKNOWN, err |-> "error", rdr |-> t.rdr]
    ELSE arrayFlagsBytes(bo, readAllBytes(8, t.rdr))

\* arrayFlags
arrayFlags(bo, rdr) == arrayFlagsTag(bo, readTag(bo, rdr))

\* dimensionsArray on the payload a of p bytes and its padding
dimensionsArrayBytes(bo, p, a) ==
    IF a.err # "nil" THEN [dim |-> <<>>, err |-> a.err, rdr |-> a.rdr]
    ELSE [dim |-> [i \in 1..(p \div 4) |->
                      Val("int32", Ordered(bo, Slice(a.buf, 4 * (i - 1), 4 * i), 4))],
          err |-> "nil", rdr |-> a.rdr]

\* dimensionsArray on the tag t of the sub-element
dimensionsArrayTag(bo, t) ==
    IF t.err # "nil" THEN [dim |-> <<>>, err |-> t.err, rdr |-> t.rdr]
    ELSE IF t.typ # DTmiINT32 THEN [dim |-> <<>>, err |-> "error", rdr |-> t.rdr]
    ELSE dimensionsArrayBytes(bo, t.len, readAllBytes(padTo64Bit(t.len), t.rdr))

\* dimensionsArray
dimensionsArray(bo, rdr) == dimensionsArrayTag(bo, readTag(bo, rdr))

\* arrayName on the payload a of p bytes and its padding: string(data[:p]), err
arrayNameBytes(p, a) ==
    [name |-> [i \in 1..p |-> IF i <= Len(a.buf) THEN a.buf[i] ELSE 0],
     err |-> a.err, rdr |-> a.rdr]

\* arrayName on the tag t of the sub-element
arrayNameTag(t) ==
    IF t.err # "nil" THEN [name |-> <<>>, err |-> t.err, rdr |-> t.rdr]
    ELSE IF t.sde.kind # "nil"
    THEN IF \E i \in 1..Len(t.sde.value) : t.sde.value[i].typ # "int8"
         THEN [name |-> <<>>, err |-> "panic", rdr |-> t.rdr]
         ELSE [name |-> [i \in 1..Len(t.sde.value) |-> t.sde.value[i].bytes[1]],
               err |-> "nil", rdr |-> t.rdr]
    ELSE IF t.typ # DTmiINT8 THEN [name |-> <<>>, err |-> "error", rdr |-> t.rdr]
    ELSE arrayNameBytes(t.len, readAllBytes(padTo64Bit(t.len), t.rdr))

\* arrayName: the name (as bytes), which the caller keeps when err is "EOF"
arrayName(bo, rdr) == arrayNameTag(readTag(bo, rdr))

\* readNumericalData on the values multi parsed from the payload
readNumericalDataMulti(typ, multi, rdr) ==
    IF multi.err # "nil" THEN [el |-> NoElement, err |-> multi.err, rdr |-> rdr]
    ELSE [el |-> SmallDataElement(typ, multi.value), err |-> "nil", rdr |-> rdr]

\* readNumericalData on the payload a of numBytes bytes
readNumericalDataBytes(bo, typ, numBytes, a) ==
    IF a.err # "nil" THEN [el |-> NoElement, err |-> a.err, rdr |-> a.rdr]
    ELSE IF NumBytes(typ) = 0 THEN [el |-> NoElement, err |-> "panic", rdr |-> a.rdr]
    ELSE readNumericalDataMulti(typ, parseMulti(typ, bo, a.buf, numBytes \div NumBytes(typ)),
                                a.rdr)

\* readNumericalData on the tag t of the sub-element
readNumericalDataTag(bo, t) ==
    IF t.err # "nil" THEN [el |-> NoElement, err |-> t.err, rdr |-> t.rdr]
    ELSE IF t.len = 0 THEN [el |-> t.sde, err |-> "nil", rdr |-> t.rdr]
    ELSE readNumericalDataBytes(bo, t.typ, t.len, readAllBytes(t.len, t.rdr))

\* readNumericalData: the real or the imaginary part of a matrix
readNumericalData(bo, rdr) == readNumericalDataTag(bo, readTag(bo, rdr))

(***************************** the inflate stream **************************)

\* the sum of the numbers of the sequence w (as the size of the bag that
\* holds w[i] copies of each i, which takes no recursion)
Sum(w) == BagCardinality([i \in {j \in DOMAIN w : w[j] > 0} |-> w[i]])

\* of data: the sum of the bytes, and the sum of the running sums, in which
\* byte i counts once for itself and once for every byte after it
AdlerLoop(data) ==
    <<Sum(data), Sum([i \in DOMAIN data |-> (Len(data) + 1 - i) * data[i]])>>

AdlerBytes(a, b) == <<b \div 256, b % 256, a \div 256, a % 256>>

AdlerSums(n, sw) == AdlerBytes((1 + sw[1]) % 65521, (n + sw[2]) % 65521)

\* Adler-32 of data, as its four trailer bytes
Adler32(data) == AdlerSums(Len(data), AdlerLoop(data))

\* zlib.NewReader(bytes.NewBuffer(buf)) for a stream of one final stored
\* block: two header bytes, the block header 01 LEN NLEN, LEN bytes and the
\* Adler-32 trailer.  err is NewReader's; the reader hands out the block's
\* bytes and ends with io.EOF, or with an error when the block or the
\* trailer is damaged.
zlibNewReader(buf) ==
    LET hdrOk == /\ Len(buf) >= 2
                 /\ buf[1] % 16 = 8
                 /\ buf[1] \div 16 <= 7
                 /\ (256 * buf[1] + buf[2]) % 31 = 0
                 /\ (buf[2] \div 32) % 2 = 0
        blkOk == /\ Len(buf) >= 7
                 /\ buf[3] = 1
                 /\ buf[4] + buf[6] = 255
                 /\ buf[5] + buf[7] = 255
        len == buf[4] + 256 * buf[5]
        have == Min(len, Len(buf) - 7)
        data == Slice(buf, 7, 7 + have)
        good == /\ have = len
                /\ Len(buf) >= 7 + len + 4
                /\ Slice(buf, 7 + len, 7 + len + 4) = Adler32(data)
    IN  IF ~hdrOk THEN [err |-> "error", rdr |-> NewReader(<<>>, 0, TRUE, "error")]
        ELSE IF ~blkOk THEN [err |-> "nil", rdr |-> NewReader(<<>>, 0, TRUE, "error")]
        ELSE [err |-> "nil", rdr |-> NewReader(data, 0, TRUE, IF good THEN "EOF" ELSE "error")]

(******************************* the decoder *******************************)

RECURSIVE readElement(_, _), readAllElementsLoop(_, _, _), miMatrix(_, _)

\* readAllElements
readAllElements(bo, rdr) == readAllElementsLoop(bo, rdr, <<>>)

\* what readElement returns, and the source afterwards
El(el, err, rdr) == [el |-> el, err |-> err, rdr |-> rdr]

\* readElement, compressed: the elements all read from the inflate stream
readElementInflated(all, rdr) ==
    IF all.err # "nil" THEN El(NoElement, all.err, rdr)
    ELSE IF Len(all.res) # 1 THEN El(NoElement, "panic", rdr)
    ELSE El(all.res[1], "nil", rdr)

\* readElement, compressed: the inflate stream cr opened on the payload
readElementStream(bo, cr, rdr) ==
    IF cr.err # "nil" THEN El(NoElement, cr.err, rdr)
    ELSE readElementInflated(readAllElements(bo, cr.rdr), rdr)

\* readElement, compressed: the payload a
readElementCompressed(bo, a) ==
    IF a.err # "nil" THEN El(NoElement, a.err, a.rdr)
    ELSE readElementStream(bo, zlibNewReader(a.buf), a.rdr)

\* readElement, matrix: what miMatrix made of the payload
readElementDecoded(m, rdr) == El(m.m, m.err, rdr)

\* readElement, matrix: the payload a
readElementMatrix(bo, a) ==
    IF a.err # "nil" THEN El(NoElement, a.err, a.rdr)
    ELSE readElementDecoded(miMatrix(bo, a.buf), a.rdr)

\* readElement, any other type: the scalar c parsed from the payload
readElementContent(typ, c, rdr) ==
    IF c.err # "nil" THEN El(NoElement, c.err, rdr)
    ELSE El(SubElement(typ, c.v), "nil", rdr)

\* readElement, any other type: the payload a and its padding
readElementDefault(bo, typ, a) ==
    IF a.err # "nil" THEN El(NoElement, a.err, a.rdr)
    ELSE readElementContent(typ, parseContent(typ, bo, a.buf), a.rdr)

\* readElement on the tag t
readElementTag(bo, t) ==
    IF t.err # "nil" THEN El(NoElement, t.err, t.rdr)
    ELSE IF t.sde.kind # "nil" THEN El(t.sde, "nil", t.rdr)
    ELSE IF t.typ = DTmiCOMPRESSED THEN readElementCompressed(bo, readAllBytes(t.len, t.rdr))
    ELSE IF t.typ = DTmiMATRIX THEN readElementMatrix(bo, readAllBytes(t.len, t.rdr))
    ELSE readElementDefault(bo, t.typ, readAllBytes(padTo64Bit(t.len), t.rdr))

\* readElement
readElement(bo, rdr) == readElementTag(bo, readTag(bo, rdr))

\* the loop of readAllElements after readElement returned e
readAllElementsNext(bo, res, e) ==
    IF e.err = "EOF" THEN [res |-> res, err |-> "nil", rdr |-> e.rdr]
    ELSE IF e.err # "nil" THEN [res |-> <<>>, err |-> e.err, rdr |-> e.rdr]
    ELSE readAllElementsLoop(bo, e.rdr, Append(res, e.el))

readAllElementsLoop(bo, rdr, res) == readAllElementsNext(bo, res, readElement(bo, rdr))

\* only sparse and object count as classes without a decoder
UnsupportedButStruct(class) == class \in {mxSPARSE, mxOBJECT}

\* the classes miMatrix panics on
Unsupported(class) == class \in {mxSPARSE, mxSTRUCT, mxOBJECT}

\* miMatrix, cell: the children read from the rest of the payload
miMatrixCell(af, dim, name, elements) ==
    IF elements.err # "nil" THEN [m |-> NoElement, err |-> elements.err]
    ELSE IF \E i \in 1..Len(elements.res) : elements.res[i].kind # "matrix"
    THEN [m |-> NoElement, err |-> "panic"]
    ELSE [m |-> Matrix(name.name, af.flags, af.class, dim.dim, elements.res), err |-> "nil"]

\* miMatrix, numeric and character: the real part pr and the error of
\* reading the imaginary part ("nil" when the matrix is not complex)
miMatrixValue(af, dim, name, pr, pierr) ==
    IF pierr \notin {"nil", "EOF"} THEN [m |-> NoElement, err |-> pierr]
    ELSE IF pr.el.kind = "nil" THEN [m |-> NoElement, err |-> "panic"]
    ELSE [m |-> Matrix(name.name, af.flags, af.class, dim.dim, pr.el.value), err |-> "nil"]

\* miMatrix, numeric and character: the real part pr
miMatrixReal(bo, af, dim, name, pr) ==
    IF pr.err # "nil" THEN [m |-> NoElement, err |-> pr.err]
    ELSE IF af.flags.isComplex
    THEN miMatrixValue(af, dim, name, pr, readNumericalData(bo, pr.rdr).err)
    ELSE miMatrixValue(af, dim, name, pr, "nil")

\* miMatrix after the array name
miMatrixName(bo, af, dim, name) ==
    IF name.err \notin {"nil", "EOF"} THEN [m |-> NoElement, err |-> name.err]
    ELSE IF Unsupported(af.class) THEN [m |-> NoElement, err |-> "panic"]
    ELSE IF af.class = mxCELL
    THEN miMatrixCell(af, dim, name, readAllElements(bo, name.rdr))
    ELSE miMatrixReal(bo, af, dim, name, readNumericalData(bo, name.rdr))

\* miMatrix after the dimensions
miMatrixDim(bo, af, dim) ==
    IF dim.err # "nil" THEN [m |-> NoElement, err |-> dim.err]
    ELSE miMatrixName(bo, af, dim, arrayName(bo, dim.rdr))

\* miMatrix after the array flags
miMatrixFlags(bo, af) ==
    IF af.err # "nil" THEN [m |-> NoElement, err |-> af.err]
    ELSE miMatrixDim(bo, af, dimensionsArray(bo, af.rdr))

\* miMatrix
miMatrix(bo, data) == miMatrixFlags(bo, arrayFlags(bo, NewBuffer(data)))

(********************************* the File ********************************)

NoFile == [ok |-> FALSE, Header |-> EmptyHeader, hasReadAll |-> FALSE, vars |-> <<>>]

\* the map f.vars with vars[name] = m
Put(m, name, v) == [n \in (DOMAIN m) \cup {name} |-> IF n = name THEN v ELSE m[n]]

\* the loop of File.readAll over the decoded elements
RECURSIVE register(_, _, _)
register(m, elements, i) ==
    IF i > Len(elements) THEN [vars |-> m, err |-> "nil"]
    ELSE IF Type(elements[i]) # DTmiMATRIX THEN [vars |-> m, err |-> "panic"]
    ELSE register(Put(m, elements[i].Name, elements[i]), elements, i + 1)

\* File.readAll after its loop: the entries reg
readAllRegistered(f1, all, reg) ==
    [f |-> [f1 EXCEPT !.vars = reg.vars], rdr |-> all.rdr, err |-> reg.err, elements |-> all.res]

\* File.readAll, with hasReadAll already set in f1: the decoded elements all
readAllDecoded(f1, all) ==
    IF all.err # "nil" THEN [f |-> f1, rdr |-> all.rdr, err |-> all.err, elements |-> <<>>]
    ELSE readAllRegistered(f1, all, register(f1.vars, all.res, 1))

\* File.readAll: the File and its source afterwards, and the error
readAll(file, rdr) ==
    IF file.hasReadAll THEN [f |-> file, rdr |-> rdr, err |-> "nil", elements |-> <<>>]
    ELSE readAllDecoded([file EXCEPT !.hasReadAll = TRUE],
                        readAllElements(file.Header.Endianess, rdr))

(**************************** writing the inputs ***************************)
(* The inputs of the decoder are written from descriptions.  A layout is    *)
(* LittleEndian, BigEndianWords (every tag word and the array flags word    *)
(* are 32-bit words, most significant byte first) or BigEndian, the layout  *)
(* readTag and arrayFlags read under binary.BigEndian: a small tag and the  *)
(* array flags are little-endian 16-bit halves whose places are swapped.    *)
(* Under LittleEndian the two ways of writing give the same bytes.          *)

BigEndianWords == "BigEndianWords"

Enc32(lay, n) ==
    IF lay = LittleEndian
    THEN <<n % 256, (n \div 256) % 256, (n \div 65536) % 256, n \div 16777216>>
    ELSE <<n \div 16777216, (n \div 65536) % 256, (n \div 256) % 256, n % 256>>

Enc16LE(n) == <<n % 256, n \div 256>>

Pad(bytes, to) == bytes \o Zeros((to - (Len(bytes) % to)) % to)

\* bytes, filled up to a multiple of to with the byte b
PadWith(bytes, to, b) == bytes \o [i \in 1..((to - (Len(bytes) % to)) % to) |-> b]

EncTag(lay, typ, len) == Enc32(lay, typ) \o Enc32(lay, len)

\* a small element: its 8 bytes
EncSmall(lay, typ, data) ==
    (IF lay = BigEndian THEN Enc16LE(Len(data)) \o Enc16LE(typ)
     ELSE Enc32(lay, 65536 * Len(data) + typ)) \o Pad(data, 4)

\* a normal element other than matrix and compressed: tag, payload, padding
EncNormal(lay, typ, data) == EncTag(lay, typ, Len(data)) \o Pad(data, 8)

EncData(lay, typ, small, data) ==
    IF small THEN EncSmall(lay, typ, data) ELSE EncNormal(lay, typ, data)

\* the array flags sub-element of class and flag bits (1 logical, 2 global, 4 complex)
EncFlags(lay, class, fbits) ==
    EncTag(lay, DTmiUINT32, 8)
    \o (IF lay = BigEndian THEN <<0, 0, 0, 0>> \o Enc16LE(class + 512 * fbits) \o <<0, 0>>
        ELSE Enc32(lay, class + 512 * fbits) \o <<0, 0, 0, 0>>)

RECURSIVE EncDims(_, _)
EncDims(lay, dims) ==
    IF dims = <<>> THEN <<>> ELSE Enc32(lay, Head(dims)) \o EncDims(lay, Tail(dims))

\* one final stored block in a zlib stream
Deflate(data) ==
    <<120, 1, 1>> \o Enc16LE(Len(data)) \o Enc16LE(65535 - Len(data)) \o data \o Adler32(data)

\* a payload under its tag
Framed(lay, typ, payload) == EncTag(lay, typ, Len(payload)) \o payload

\* a payload under a tag that declares all of it, with only keep bytes following
FramedCut(lay, typ, payload, keep) == EncTag(lay, typ, Len(payload)) \o SubSeq(payload, 1, keep)

\* a stream whose last byte is off by one
Damage(z) == [i \in 1..Len(z) |-> IF i = Len(z) THEN (z[i] + 1) % 256 ELSE z[i]]

RECURSIVE EncItem(_, _), EncItems(_, _), EncPayload(_, _)

EncItems(lay, items) ==
    IF items = <<>> THEN <<>> ELSE EncItem(lay, Head(items)) \o EncItems(lay, Tail(items))

\* the payload of a matrix element
EncPayload(lay, it) ==
    EncTag(lay, it.flagsType, it.flagsLen) \o Slice(EncFlags(lay, it.class, it.fbits), 8, 16)
    \o EncNormal(lay, it.dimsType, EncDims(lay, it.dims))
    \o EncData(lay, it.nameType, it.nameSmall, it.name)
    \o (IF it.class = mxCELL THEN EncItems(lay, it.sub)
        ELSE EncData(lay, it.dt, it.small, it.data)
             \o (IF it.hasImag THEN EncData(lay, it.dt, it.small, it.imag) ELSE <<>>))

EncItem(lay, it) ==
    CASE it.k = "matrix" -> Framed(lay, DTmiMATRIX, EncPayload(lay, it))
      [] it.k = "empty" -> EncTag(lay, DTmiMATRIX, 0)
      [] it.k = "compressed" -> Framed(lay, DTmiCOMPRESSED, Deflate(EncItems(lay, it.sub)))
      [] it.k = "damaged" -> Framed(lay, DTmiCOMPRESSED, Damage(Deflate(EncItems(lay, it.sub))))
      [] it.k = "cut" -> FramedCut(lay, DTmiMATRIX, EncPayload(lay, it), it.keep)
      [] it.k = "short" -> Framed(lay, DTmiMATRIX, SubSeq(EncPayload(lay, it), 1, it.keep))
      [] it.k = "plain" -> EncData(lay, it.dt, it.small, it.data)
      [] it.k = "tag" ->
            (IF lay = LittleEndian THEN Enc16LE(it.dt) \o Enc16LE(it.keep)
             ELSE Enc16LE(it.keep) \o Enc16LE(it.dt)) \o it.data
      [] it.k = "padded" -> EncTag(lay, it.dt, Len(it.data)) \o PadWith(it.data, 8, it.fill)

\* descriptions
Item(k) ==
    [k |-> k, name |-> <<>>, nameSmall |-> TRUE, nameType |-> DTmiINT8, class |-> mxDOUBLE,
     fbits |-> 0, dimsType |-> DTmiINT32, dims |-> <<1, 1>>, dt |-> DTmiDOUBLE,
     small |-> FALSE, data |-> <<>>, hasImag |-> FALSE, imag |-> <<>>, sub |-> <<>>, keep |-> 0,
     fill |-> 0, flagsType |-> DTmiUINT32, flagsLen |-> 8]

Numeric(name, class, dt, small, data) ==
    [Item("matrix") EXCEPT !.name = name, !.class = class, !.dt = dt, !.small = small,
                           !.data = data, !.dims = <<1, Len(data) \div NumBytes(dt)>>]

Cell(name, sub) ==
    [Item("matrix") EXCEPT !.name = name, !.class = mxCELL, !.sub = sub,
                           !.dims = <<1, Len(sub)>>]

Compressed(sub) == [Item("compressed") EXCEPT !.sub = sub]

\* the description text of a header, filled with spaces to 116 bytes
EncText(text) == text \o [i \in 1..(116 - Len(text)) |-> 32]

\* the 128 header bytes
EncHeader(h) ==
    EncText(h.prefix \o h.level \o <<32>>
            \o (IF h.comma
                THEN <<77,65,84,45,102,105,108,101,44,32,80,108,97,116,102,111,114,109,58,32>>
                ELSE <<77,65,84,45,102,105,108,101,32,80,108,97,116,102,111,114,109,58,32>>)
            \o h.platform \o <<44,32,67,114,101,97,116,101,100,32,111,110,58,32>> \o h.ts)
    \o Zeros(8) \o <<0, 1>> \o h.marker

\* the byte order the marker of a header stands for
BodyOrder(h) == IF h.marker = TxtMI THEN BigEndian ELSE LittleEndian

\* the layout the body after a header is written in
Layout(h) ==
    IF h.marker # TxtMI THEN LittleEndian
    ELSE IF h.words THEN BigEndianWords ELSE BigEndian

\* bytes, or only the first cut of them if cut > 0
Cut(bytes, cut) == IF cut > 0 THEN SubSeq(bytes, 1, Min(cut, Len(bytes))) ELSE bytes

\* the bytes of a file: header and elements
EncFile(in) == Cut(EncHeader(in.hdr) \o EncItems(Layout(in.hdr), in.body), in.cut)

(*************************** Matrix.IntArray etc. ***************************)

IntType(class) ==
    CASE class = mxINT8 -> "int8"
      [] class = mxINT16 -> "int16"
      [] class = mxINT32 -> "int32"
      [] class = mxINT64 -> "int64"
      [] class = mxUINT8 -> "uint8"
      [] class = mxUINT16 -> "uint16"
      [] class = mxUINT32 -> "uint32"
      [] class = mxUINT64 -> "uint64"
      [] OTHER -> "none"

\* the dynamic Go type of one entry of Matrix.value
EntryType(e) == IF "typ" \in DOMAIN e THEN e.typ ELSE "*Matrix"

\* Matrix.IntArray: the int64 values, or a panic
IntArray(m) ==
    IF \E i \in 1..Len(m.value) : IntType(m.Class) \in {"none"} \/ EntryType(m.value[i]) # IntType(m.Class)
    THEN [value |-> <<>>, panic |-> TRUE]
    ELSE [value |-> [i \in 1..Len(m.value) |-> [typ |-> "int64", from |-> m.value[i]]],
          panic |-> FALSE]

FloatType(class) ==
    CASE class = mxDOUBLE -> "float64"
      [] class = mxSINGLE -> "float32"
      [] OTHER -> "none"

\* Matrix.DoubleArray: the float64 values, or a panic
DoubleArray(m) ==
    IF \E i \in 1..Len(m.value) : FloatType(m.Class) \in {"none"} \/ EntryType(m.value[i]) # FloatType(m.Class)
    THEN [value |-> <<>>, panic |-> TRUE]
    ELSE [value |-> [i \in 1..Len(m.value) |-> [typ |-> "float64", from |-> m.value[i]]],
          panic |-> FALSE]

(******************************** the inputs *******************************)

MaxElems == 2      \* most top-level elements in a file
MaxCalls == 3      \* most decoding calls on one source
MaxKids == 2       \* most elements nested in a cell
MaxChunk == 9      \* most bytes a short-reading source hands out at once

NameA == <<97>>
NameB == <<98>>
NameC == <<99>>
NameD == <<100>>
NameN == <<110>>
NameS == <<115>>
NameZ == <<122>>
NameLong == <<108, 111, 110, 103, 101, 114>>                 \* "longer"
Names == {NameA, NameB, NameC, NameD, NameN, NameS, NameZ}

\* sixteen bytes of payload
Bytes16 == <<1, 2, 3, 4, 5, 6, 7, 8, 9, 10, 11, 12, 13, 14, 15, 16>>

ItA == Numeric(NameA, mxDOUBLE, DTmiDOUBLE, FALSE, <<0, 0, 0, 0, 0, 192, 94, 64>>)
ItB == Numeric(NameB, mxINT32, DTmiINT32, TRUE, <<7, 0, 0, 0>>)
ItA2 == Numeric(NameA, mxUINT8, DTmiUINT8, TRUE, <<1, 2>>)
ItC == Numeric(NameC, mxINT8, DTmiINT8, TRUE, <<5>>)
ItN == Numeric(NameN, mxDOUBLE, DTmiUINT8, TRUE, <<3>>)
ItStruct == Numeric(NameS, mxSTRUCT, DTmiINT32, TRUE, <<1, 0, 0, 0>>)
ItZ == Compressed(<<ItC>>)
ItEmpty == Item("empty")
ItSmall == [Item("plain") EXCEPT !.dt = DTmiINT32, !.small = TRUE, !.data = <<1, 0, 0, 0>>]
ItPlain == [Item("plain") EXCEPT !.dt = DTmiINT16, !.small = FALSE, !.data = <<1, 0, 2, 0>>]
ItCut == [ItB EXCEPT !.k = "cut", !.keep = 20]
ItDamaged == [Item("damaged") EXCEPT !.sub = <<ItC>>]
ItCell == Cell(NameZ, <<ItC, ItB>>)
\* a matrix element whose payload is over after its dimensions
ItShort == [ItB EXCEPT !.k = "short", !.keep = 32]

TopItems == {ItA, ItB, ItA2, ItN, ItStruct, ItZ, ItEmpty, ItSmall, ItCut, ItDamaged, ItCell}

Bodies == UNION {[1..k -> TopItems] : k \in 0..MaxElems}

Hdr(prefix, level, comma, platform, ts, marker, words) ==
    [prefix |-> prefix, level |-> level, comma |-> comma, platform |-> platform,
     ts |-> ts, marker |-> marker, words |-> words]

TxtPosix == <<112, 111, 115, 105, 120>>                      \* "posix"
TxtPCWIN == <<80, 67, 87, 73, 78>>                           \* "PCWIN"
TsOctave == <<50,48,49,51,45,48,50,45,49,56,32,49,55,58,49,50,58,48,56,32,85,84,67,32>>

HdrLE == Hdr(TxtMATLAB, Txt50, FALSE, TxtPosix, TsGood, TxtIM, TRUE)
HdrBE == Hdr(TxtMATLAB, Txt50, FALSE, TxtPosix, TsGood, TxtMI, FALSE)
HdrBEWords == Hdr(TxtMATLAB, Txt50, FALSE, TxtPosix, TsGood, TxtMI, TRUE)

Headers ==
    {Hdr(px, lv, cm, pf, ts, mk, TRUE) :
        px \in {TxtMATLAB, <<79, 99, 116, 97, 118, 101, 32>>},
        lv \in {Txt50, <<55, 46, 48>>, <<53, 46, 48, 9>>},
        cm \in BOOLEAN,
        pf \in {TxtPosix, TxtPCWIN},
        ts \in {TsGood, TsWrongDay, TsOctave},
        mk \in {TxtIM, TxtMI, <<88, 88>>}}

\* An input: a whole file ("file"), a stream of elements without header
\* ("stream") or the payload of one matrix element ("payload"); cut > 0 keeps
\* only the first cut bytes; chunk and eager are the read behaviour of a
\* stream's source.
In(k, hdr, body, cut, chunk, eager) ==
    [k |-> k, hdr |-> hdr, body |-> body, cut |-> cut, chunk |-> chunk, eager |-> eager]

FileInputs ==
    {In("file", h, b, 0, 0, FALSE) : h \in {HdrLE, HdrBE, HdrBEWords}, b \in Bodies}
    \cup {In("file", h, <<ItA>>, 0, 0, FALSE) : h \in Headers}
    \cup {In("file", HdrLE, <<ItA>>, c, 0, FALSE) : c \in {60, 120, 126}}

KidItems == {ItC, ItB, ItEmpty, ItSmall, ItPlain, ItZ}
Kids == UNION {[1..k -> KidItems] : k \in 0..MaxKids}

NumericItems ==
    {[Item("matrix") EXCEPT !.class = c, !.fbits = fb, !.name = nm[1], !.nameSmall = nm[2],
                            !.dt = d[1], !.small = d[2], !.data = d[3]] :
        c \in (0..15) \ {mxCELL},
        fb \in {0, 1, 2, 4},
        nm \in {<<NameS, TRUE>>, <<<<>>, FALSE>>, <<NameLong, FALSE>>},
        d \in {<<DTmiINT32, TRUE, <<1, 0, 0, 0>>>>,
               <<DTmiDOUBLE, FALSE, <<0, 0, 0, 0, 0, 192, 94, 64>>>>,
               <<DTmiUINT8, FALSE, <<1, 2, 3>>>>}}

\* matrices whose real part has 0, 1 and 2 scalars under a normal tag, and
\* 1 to 4 bytes in a small element
RealItems ==
    {Numeric(NameA, mxDOUBLE, DTmiDOUBLE, FALSE, SubSeq(Bytes16, 1, len)) : len \in {0, 8, 16}}
    \cup {Numeric(NameA, mxUINT8, DTmiUINT8, FALSE, SubSeq(Bytes16, 1, len)) : len \in {0, 1, 8, 9}}
    \cup {Numeric(NameA, mxCHAR, DTmiUINT16, sm, SubSeq(Bytes16, 1, len)) :
             sm \in BOOLEAN, len \in {2, 4}}
    \cup {Numeric(NameA, mxUINT8, DTmiUINT8, TRUE, SubSeq(Bytes16, 1, len)) : len \in 1..4}

\* complex matrices: the real items that hold a scalar, the complex flag
\* set, followed by an imaginary part of the same shape
ComplexItems ==
    {[it EXCEPT !.fbits = 4, !.hasImag = TRUE, !.imag = Rev(it.data)] :
        it \in {x \in RealItems : x.data # <<>>}}

\* matrices of no, one, two and three dimensions
DimItems == {[ItB EXCEPT !.dims = d] : d \in {<<>>, <<3>>, <<2, 3>>, <<2, 3, 4>>}}

\* matrices with one sub-element of another type than the format has there
WrongItems ==
    {[ItB EXCEPT !.flagsType = DTmiINT32],
     [ItB EXCEPT !.flagsLen = 4],
     [ItB EXCEPT !.flagsLen = 16],
     [ItB EXCEPT !.dimsType = DTmiUINT32],
     [ItB EXCEPT !.nameType = DTmiUINT8, !.nameSmall = FALSE],
     [ItB EXCEPT !.nameType = DTmiUINT8, !.nameSmall = TRUE],
     [ItB EXCEPT !.nameType = DTmiUTF8, !.nameSmall = TRUE]}

\* matrices under every combination of the three flag bits
FlagItems == {[it EXCEPT !.fbits = fb] : it \in {ItA, ItB}, fb \in 0..7}

PayloadInputs ==
    {In("payload", h, <<it>>, 0, 0, FALSE) :
        h \in {HdrLE, HdrBE},
        it \in NumericItems \cup {Cell(NameZ, kids) : kids \in Kids} \cup FlagItems
               \cup WrongItems \cup RealItems \cup ComplexItems \cup DimItems}

StreamInputs ==
    {In("stream", h, b, c, ch, e) :
        h \in {HdrLE, HdrBE}, b \in {<<ItB>>, <<ItSmall, ItPlain>>, <<ItZ, ItB>>},
        c \in {0, 4, 12}, ch \in {0} \cup (MaxChunk - 4)..MaxChunk, e \in BOOLEAN}

\* streams of elements on a source that reads in full, whole or cut
ElementInputs ==
    {In("stream", h, b, c, 0, FALSE) :
        h \in {HdrLE, HdrBE}, b \in {<<ItB>>, <<ItSmall, ItShort>>, <<ItSmall, ItPlain>>},
        c \in {0, 8, 12, 20}}

\* a normal-tag element of type dt over the first len of those bytes, its
\* padding made of the byte fill
Padded(dt, len, fill) ==
    [Item("padded") EXCEPT !.dt = dt, !.data = SubSeq(Bytes16, 1, len), !.fill = fill]

PaddedItems ==
    {Padded(dt, len, fill) :
        dt \in {DTmiUINT8, DTmiINT16, DTmiINT32, DTmiDOUBLE},
        len \in {0, 1, 7, 8, 9, 16}, fill \in {0, 255}}

\* eight bytes of tag: the 16-bit halves typ and len of the first word, in
\* the places the byte order gives them, and the second word
RawTag(typ, len) == [Item("tag") EXCEPT !.dt = typ, !.keep = len, !.data = <<1, 2, 3, 4>>]

TagItems ==
    {RawTag(typ, len) :
        typ \in {DataTypeUnknown, DTmiINT8, DTmiINT16, DTmiINT32, DTmiDOUBLE, DTmiMATRIX},
        len \in {0, 1, 2, 4, 5, 8}}

\* compressed elements around no, one and two elements
CompressedItems ==
    {Compressed(sub) : sub \in UNION {[1..k -> {ItC, ItB, ItEmpty}] : k \in 0..2}}
    \cup {ItDamaged}

\* single elements, each followed by a small element, for readElement and readTag
SingleInputs ==
    {In("element", h, <<it, ItSmall>>, 0, 0, FALSE) :
        h \in {HdrLE, HdrBE}, it \in PaddedItems \cup TagItems \cup CompressedItems}

Inputs == FileInputs \cup PayloadInputs \cup StreamInputs \cup ElementInputs \cup SingleInputs

\* the byte order the functions under test are called with
bo == BodyOrder(input.hdr)

\* the byte source an input is read from
Source(in) ==
    CASE in.k = "file" -> NewReader(EncFile(in), 0, FALSE, "EOF")
      [] in.k = "stream" ->
            NewReader(Cut(EncItems(Layout(in.hdr), in.body), in.cut), in.chunk, in.eager, "EOF")
      [] in.k = "payload" -> NewBuffer(EncPayload(Layout(in.hdr), in.body[1]))
      [] in.k = "element" -> NewReader(EncItems(Layout(in.hdr), in.body), 0, FALSE, "EOF")

(******************************* the actions *******************************)

NoRet == [op |-> "none"]

Init ==
    /\ input \in Inputs
    /\ r = Source(input)
    /\ f = NoFile
    /\ ret = NoRet
    /\ pass = "none"
    /\ calls = 0
    /\ stack = <<>>

\* NewFileFromReader after readHeader returned h
NewFileFromReaderHeader(h) ==
    /\ f' = [NoFile EXCEPT !.ok = (h.err = "nil"), !.Header = h.h]
    /\ r' = h.rdr
    /\ ret' = [op |-> "NewFileFromReader", err |-> h.err]

\* NewFileFromReader(r)
NewFileFromReader ==
    /\ input.k = "file"
    /\ ret = NoRet
    /\ NewFileFromReaderHeader(readHeader(r))
    /\ UNCHANGED <<input, pass, calls, stack>>

\* a lookup that runs the full-decode pass whether or not the File was read
lookupPassAgain(file, rdr) == readAll([file EXCEPT !.hasReadAll = FALSE], rdr)

\* the full-decode pass of a lookup, run unless the File has been read
lookupPass(file, rdr) ==
    IF ~file.hasReadAll THEN readAll(file, rdr)
    ELSE [f |-> file, rdr |-> rdr, err |-> "nil", elements |-> <<>>]

\* what GetVar returns after the pass ra: (nil, false) on an error
GetVarReturn(name, ra) ==
    IF ra.err = "panic"
    THEN [op |-> "GetVar", name |-> name, panic |-> TRUE, found |-> FALSE, m |-> NoElement]
    ELSE IF ra.err # "nil" \/ name \notin DOMAIN ra.f.vars
    THEN [op |-> "GetVar", name |-> name, panic |-> FALSE, found |-> FALSE, m |-> NoElement]
    ELSE [op |-> "GetVar", name |-> name, panic |-> FALSE, found |-> TRUE, m |-> ra.f.vars[name]]

\* what GetVarsNames returns after the pass ra: nil on an error; a nil slice
\* is isNil with no names
GetVarsNamesReturn(ra) ==
    IF ra.err = "panic"
    THEN [op |-> "GetVarsNames", panic |-> TRUE, isNil |-> TRUE, names |-> {}]
    ELSE IF ra.err # "nil"
    THEN [op |-> "GetVarsNames", panic |-> FALSE, isNil |-> TRUE, names |-> {}]
    ELSE [op |-> "GetVarsNames", panic |-> FALSE, isNil |-> (DOMAIN ra.f.vars = {}),
          names |-> DOMAIN ra.f.vars]

\* the File and its source after the pass ra of a lookup that returns answer
Lookup(ra, answer) ==
    /\ f' = ra.f
    /\ r' = ra.rdr
    /\ pass' = IF f.hasReadAll THEN pass ELSE ra.err
    /\ ret' = answer
    /\ calls' = calls + 1
    /\ UNCHANGED <<input, stack>>

GetVarPass(name, ra) == Lookup(ra, GetVarReturn(name, ra))

\* f.GetVar(name)
GetVar(name) ==
    /\ f.ok
    /\ calls < MaxCalls
    /\ GetVarPass(name, lookupPass(f, r))

GetVarsNamesPass(ra) == Lookup(ra, GetVarsNamesReturn(ra))

\* f.GetVarsNames()
GetVarsNames ==
    /\ f.ok
    /\ calls < MaxCalls
    /\ GetVarsNamesPass(lookupPass(f, r))

\* f.Header.String()
String ==
    /\ input.k = "file"
    /\ ret # NoRet
    /\ ret' = [op |-> "String", s |-> HeaderString(f.Header)]
    /\ UNCHANGED <<input, r, f, pass, calls, stack>>

\* m.IntArray() on the Matrix GetVar returned
CallIntArray ==
    /\ ret.op = "GetVar" /\ ret.found
    /\ ret' = [op |-> "IntArray", m |-> ret.m, res |-> IntArray(ret.m)]
    /\ UNCHANGED <<input, r, f, pass, calls, stack>>

\* m.DoubleArray() on the Matrix GetVar returned
CallDoubleArray ==
    /\ ret.op = "GetVar" /\ ret.found
    /\ ret' = [op |-> "DoubleArray", m |-> ret.m, res |-> DoubleArray(ret.m)]
    /\ UNCHANGED <<input, r, f, pass, calls, stack>>

\* a call on the source of a stream that leaves the source rdr and returns answer
Call(rdr, answer) ==
    /\ r' = rdr
    /\ ret' = answer
    /\ calls' = calls + 1
    /\ UNCHANGED <<input, f, pass, stack>>

DoReadAllBytesReturn(p, a) ==
    Call(a.rdr, [op |-> "readAllBytes", p |-> p, start |-> r.pos,
                 buf |-> a.buf \o Zeros(a.fill), err |-> a.err])

\* readAllBytes(p, r)
DoReadAllBytes(p) ==
    /\ input.k = "stream"
    /\ calls < MaxCalls
    /\ DoReadAllBytesReturn(p, readAllBytes(p, r))

DoReadTagReturn(t) ==
    Call(t.rdr, [op |-> "readTag", start |-> r.pos, sde |-> t.sde, typ |-> t.typ,
                 len |-> t.len, err |-> t.err])

\* readTag(bo, r)
DoReadTag ==
    /\ input.k \in {"stream", "element"}
    /\ calls < MaxCalls
    /\ DoReadTagReturn(readTag(bo, r))

DoReadAllElementsReturn(a) ==
    Call(a.rdr, [op |-> "readAllElements", start |-> r.pos, res |-> a.res, err |-> a.err])

\* readAllElements(bo, r)
DoReadAllElements ==
    /\ input.k = "stream"
    /\ calls < MaxCalls
    /\ DoReadAllElementsReturn(readAllElements(bo, r))

DoReadElementReturn(e) ==
    Call(e.rdr, [op |-> "readElement", start |-> r.pos, el |-> e.el, err |-> e.err])

\* readElement(bo, r)
DoReadElement ==
    /\ input.k = "element"
    /\ calls < MaxCalls
    /\ DoReadElementReturn(readElement(bo, r))

DoMiMatrixReturn(m) ==
    /\ ret' = [op |-> "miMatrix", m |-> m.m, err |-> m.err]
    /\ UNCHANGED <<input, r, f, pass, calls, stack>>

\* miMatrix(bo, data) on the payload
DoMiMatrix ==
    /\ input.k = "payload"
    /\ ret = NoRet
    /\ DoMiMatrixReturn(miMatrix(bo, r.data))

Next ==
    \/ NewFileFromReader
    \/ \E name \in Names : GetVar(name)
    \/ GetVarsNames
    \/ String
    \/ CallIntArray
    \/ CallDoubleArray
    \/ \E p \in {4, 8, 16} : DoReadAllBytes(p)
    \/ DoReadTag
    \/ DoReadAllElements
    \/ DoReadElement
    \/ DoMiMatrix

Spec == Init /\ [][Next]_vars

(************************ the pass, turn by turn ***************************)
(* The full-decode pass with its loops unrolled: stack holds the calls in   *)
(* progress, innermost last.  A readAllElements and a miMatrix in progress  *)
(* read from their own source rdr; a readAllBytes in progress reads from    *)
(* the source of the call below it.  ret is what the call that ended last   *)
(* handed to its caller.                                                     *)

\* a readAllElements in progress on the source rdr: the elements so far, where
\* it stands (pc), the cursor at which the turn under way began (at), the type
\* of the element under way, and what readElement returned (e)
Pass(rdr) ==
    [fn |-> "readAllElements", rdr |-> rdr, res |-> <<>>, pc |-> "loop", at |-> rdr.pos,
     typ |-> DataTypeUnknown, e |-> [el |-> NoElement, err |-> "nil"]]

\* a readAllBytes(p) in progress
Bytes(p) == [fn |-> "readAllBytes", p |-> p, buf |-> <<>>, remaining |-> p]

\* a miMatrix in progress on the buffer rdr of its payload: the sub-element
\* under way (pc), how far its reader is (stage), the tag t it read, and the
\* array flags, dimensions, name and real part read so far
Mat(rdr) ==
    [fn |-> "miMatrix", rdr |-> rdr, pc |-> "flags", stage |-> "start", t |-> <<>>,
     af |-> <<>>, dim |-> <<>>, name |-> <<>>, pr |-> <<>>]

Top == stack[Len(stack)]
Below == stack[Len(stack) - 1]
Pop(stk) == SubSeq(stk, 1, Len(stk) - 1)
SetTop(stk, fr) == [stk EXCEPT ![Len(stk)] = fr]

\* the step to the calls stk in progress, answer handed to the caller
RunTo(stk, answer) ==
    /\ stack' = stk
    /\ ret' = answer
    /\ r' = IF stk # <<>> THEN stk[1].rdr ELSE stack[1].rdr
    /\ UNCHANGED <<input, f, pass, calls>>

\* what readAllBytes returned, as the operators above take it
Answer == [buf |-> ret.buf, fill |-> ret.fill, err |-> ret.err, rdr |-> Top.rdr]

\* readAllElements, top of the loop: readElement calls readTag, which calls
\* readAllBytes(8, r)
RunTurn ==
    /\ stack # <<>>
    /\ Top.fn = "readAllElements" /\ Top.pc = "loop"
    /\ RunTo(Append(SetTop(stack, [Top EXCEPT !.pc = "tag", !.at = Top.rdr.pos]), Bytes(8)),
             NoRet)

\* one turn of the loop of readAllBytes(p) on what Read returned: whether the
\* call is over, and then buf, fill and err as it returns them, else buf and
\* remaining for the next turn
readAllBytesTurn(fr, rd) ==
    IF rd.err = "error"
    THEN [done |-> TRUE, buf |-> fr.buf, fill |-> 0, err |-> "error", remaining |-> 0]
    ELSE IF rd.err = "EOF"
    THEN IF fr.remaining - rd.n = 0
         THEN [done |-> TRUE, buf |-> fr.buf \o rd.bytes, fill |-> 0, err |-> "nil",
               remaining |-> 0]
         ELSE IF fr.p = fr.remaining
         THEN [done |-> TRUE, buf |-> rd.bytes, fill |-> fr.p - rd.n, err |-> "EOF",
               remaining |-> 0]
         ELSE [done |-> TRUE, buf |-> rd.bytes, fill |-> fr.p - rd.n, err |-> "error",
               remaining |-> 0]
    ELSE [done |-> FALSE, buf |-> fr.buf \o rd.bytes, fill |-> 0, err |-> "nil",
          remaining |-> fr.remaining - rd.n]

RunReadTurn(rd, t) ==
    IF t.done
    THEN RunTo(SetTop(Pop(stack), [Below EXCEPT !.rdr = rd.rdr]),
               [op |-> "readAllBytes", buf |-> t.buf, fill |-> t.fill, err |-> t.err])
    ELSE RunTo([stack EXCEPT ![Len(stack) - 1].rdr = rd.rdr,
                             ![Len(stack)].buf = t.buf,
                             ![Len(stack)].remaining = t.remaining],
               NoRet)

RunReadDone(rd) == RunReadTurn(rd, readAllBytesTurn(Top, rd))

\* readAllBytes, one turn of its loop: remaining > 0, rdr.Read(r)
RunRead ==
    /\ stack # <<>>
    /\ Top.fn = "readAllBytes" /\ Top.remaining > 0
    /\ RunReadDone(Read(Below.rdr, Top.p))

\* readAllBytes, the end of its loop: remaining <= 0, return buf, nil
RunReadEnd ==
    /\ stack # <<>>
    /\ Top.fn = "readAllBytes" /\ Top.remaining <= 0
    /\ RunTo(Pop(stack), [op |-> "readAllBytes", buf |-> Top.buf, fill |-> 0, err |-> "nil"])

\* readElement has the answer el, err of the element under way
RunElement(el, err) ==
    RunTo(SetTop(stack, [Top EXCEPT !.pc = "el", !.e = [el |-> el, err |-> err]]), NoRet)

\* readElement calls readAllBytes(p, r) for the payload of a tag of type typ
RunPayloadCall(typ, p) ==
    RunTo(Append(SetTop(stack, [Top EXCEPT !.pc = "payload", !.typ = typ]), Bytes(p)), NoRet)

\* readElement on the tag t that readTag returned
RunTagged(t) ==
    IF t.err # "nil" \/ t.sde.kind # "nil" THEN RunElement(t.sde, t.err)
    ELSE IF t.typ \in {DTmiCOMPRESSED, DTmiMATRIX} THEN RunPayloadCall(t.typ, t.len)
    ELSE RunPayloadCall(t.typ, padTo64Bit(t.len))

\* readTag after its readAllBytes(8, r), and readElement up to the read of
\* the payload
RunTag ==
    /\ stack # <<>>
    /\ Top.fn = "readAllElements" /\ Top.pc = "tag"
    /\ ret.op = "readAllBytes"
    /\ RunTagged(readTagBytes(bo, Answer))

\* readElement calls fr, a readAllElements or a miMatrix, and takes it up
\* again at pc
RunCall(pc, fr) == RunTo(Append(SetTop(stack, [Top EXCEPT !.pc = pc]), fr), NoRet)

RunResult(x) == RunElement(x.el, x.err)

\* readElement, compressed: the inflate stream cr opened on the payload
RunInflate(cr) ==
    IF cr.err # "nil" THEN RunElement(NoElement, cr.err)
    ELSE RunCall("nested", Pass(cr.rdr))

\* readElement on the payload a of a tag of type typ
RunPayloadOf(typ, a) ==
    IF a.err # "nil" THEN RunElement(NoElement, a.err)
    ELSE IF typ = DTmiCOMPRESSED THEN RunInflate(zlibNewReader(a.buf))
    ELSE IF typ = DTmiMATRIX THEN RunCall("matrix", Mat(NewBuffer(a.buf)))
    ELSE RunResult(readElementDefault(bo, typ, a))

\* readElement after its readAllBytes of the payload
RunPayload ==
    /\ stack # <<>>
    /\ Top.fn = "readAllElements" /\ Top.pc = "payload"
    /\ ret.op = "readAllBytes"
    /\ RunPayloadOf(Top.typ, Answer)

\* readElement, compressed, after its readAllElements on the inflate stream
RunNested ==
    /\ stack # <<>>
    /\ Top.fn = "readAllElements" /\ Top.pc = "nested"
    /\ ret.op = "readAllElements"
    /\ RunResult(readElementInflated(ret, Top.rdr))

\* readElement, matrix, after miMatrix returned
RunMatrix ==
    /\ stack # <<>>
    /\ Top.fn = "readAllElements" /\ Top.pc = "matrix"
    /\ ret.op = "miMatrix"
    /\ RunElement(ret.m, ret.err)

\* a loop of readAllElements that goes on when readElement returns io.EOF
readAllElementsTurnOn(fr, e) ==
    IF e.err \notin {"nil", "EOF"} THEN [done |-> TRUE, res |-> <<>>, err |-> e.err]
    ELSE [done |-> FALSE, res |-> Append(fr.res, e.el), err |-> "nil"]

\* the loop of readAllElements on what readElement returned: whether it is
\* over, and then what readAllElements returns, else the elements so far
readAllElementsTurn(fr, e) ==
    IF e.err = "EOF" THEN [done |-> TRUE, res |-> fr.res, err |-> "nil"]
    ELSE IF e.err # "nil" THEN [done |-> TRUE, res |-> <<>>, err |-> e.err]
    ELSE [done |-> FALSE, res |-> Append(fr.res, e.el), err |-> "nil"]

RunNextTurn(t) ==
    IF t.done THEN RunTo(Pop(stack), [op |-> "readAllElements", res |-> t.res, err |-> t.err])
    ELSE RunTo(SetTop(stack, [Top EXCEPT !.res = t.res, !.pc = "loop"]), NoRet)

\* readAllElements, the rest of its loop after readElement returned
RunNext ==
    /\ stack # <<>>
    /\ Top.fn = "readAllElements" /\ Top.pc = "el"
    /\ RunNextTurn(readAllElementsTurn(Top, Top.e))

\* miMatrix calls the reader of its next sub-element (arrayFlags,
\* dimensionsArray, arrayName, readNumericalData), which calls readTag, which
\* calls readAllBytes(8, r)
RunSub ==
    /\ stack # <<>>
    /\ Top.fn = "miMatrix" /\ Top.stage = "start"
    /\ RunTo(Append(SetTop(stack, [Top EXCEPT !.stage = "tag"]), Bytes(8)), NoRet)

\* the reader of a sub-element returns sub without a further read
SubDone(sub) == [done |-> TRUE, p |-> 0, sub |-> sub]

\* the reader of a sub-element calls readAllBytes(p, r)
SubRead(p) == [done |-> FALSE, p |-> p, sub |-> <<>>]

\* arrayFlags on the tag t, up to its readAllBytes
arrayFlagsRead(t) ==
    IF t.err # "nil"
    THEN SubDone([flags |-> Flags(FALSE, FALSE, FALSE), class |-> mxUNKNOWN, err |-> t.err,
                  rdr |-> t.rdr])
    ELSE IF t.typ # DTmiUINT32 \/ t.len # 8
    THEN SubDone([flags |-> Flags(FALSE, FALSE, FALSE), class |-> mxUNKNOWN, err |-> "error",
                  rdr |-> t.rdr])
    ELSE SubRead(8)

\* dimensionsArray on the tag t, up to its readAllBytes
dimensionsArrayRead(t) ==
    IF t.err # "nil" THEN SubDone([dim |-> <<>>, err |-> t.err, rdr |-> t.rdr])
    ELSE IF t.typ # DTmiINT32 THEN SubDone([dim |-> <<>>, err |-> "error", rdr |-> t.rdr])
    ELSE SubRead(padTo64Bit(t.len))

\* arrayName on the tag t, up to its readAllBytes
arrayNameRead(t) ==
    IF t.err # "nil" THEN SubDone([name |-> <<>>, err |-> t.err, rdr |-> t.rdr])
    ELSE IF t.sde.kind # "nil"
    THEN IF \E i \in 1..Len(t.sde.value) : t.sde.value[i].typ # "int8"
         THEN SubDone([name |-> <<>>, err |-> "panic", rdr |-> t.rdr])
         ELSE SubDone([name |-> [i \in 1..Len(t.sde.value) |-> t.sde.value[i].bytes[1]],
                       err |-> "nil", rdr |-> t.rdr])
    ELSE IF t.typ # DTmiINT8 THEN SubDone([name |-> <<>>, err |-> "error", rdr |-> t.rdr])
    ELSE SubRead(padTo64Bit(t.len))

\* readNumericalData on the tag t, up to its readAllBytes
readNumericalDataRead(t) ==
    IF t.err # "nil" THEN SubDone([el |-> NoElement, err |-> t.err, rdr |-> t.rdr])
    ELSE IF t.len = 0 THEN SubDone([el |-> t.sde, err |-> "nil", rdr |-> t.rdr])
    ELSE SubRead(t.len)

\* the reader of the sub-element pc on the tag t, up to its readAllBytes
SubTag(pc, t) ==
    CASE pc = "flags" -> arrayFlagsRead(t)
      [] pc = "dims" -> dimensionsArrayRead(t)
      [] pc = "name" -> arrayNameRead(t)
      [] pc \in {"real", "imag"} -> readNumericalDataRead(t)

\* the reader of the sub-element pc of tag t on the bytes a of its payload
SubData(pc, t, a) ==
    CASE pc = "flags" -> arrayFlagsBytes(bo, a)
      [] pc = "dims" -> dimensionsArrayBytes(bo, t.len, a)
      [] pc = "name" -> arrayNameBytes(t.len, a)
      [] pc \in {"real", "imag"} -> readNumericalDataBytes(bo, t.typ, t.len, a)

\* miMatrix returns m, err
MatReturn(m, err) == [to |-> "return", m |-> m, err |-> err, fr |-> <<>>]

MatReturned(x) == MatReturn(x.m, x.err)

\* miMatrix goes on to the sub-element pc
MatSub(pc, fr) == [to |-> pc, m |-> NoElement, err |-> "nil", fr |-> fr]

\* miMatrix after the reader of its sub-element fr.pc returned sub: its
\* return, or the sub-element it reads next, or the cell whose children it
\* reads
MatNext(fr, sub) ==
    CASE fr.pc = "flags" ->
            IF sub.err # "nil" THEN MatReturn(NoElement, sub.err)
            ELSE MatSub("dims", [fr EXCEPT !.af = sub])
      [] fr.pc = "dims" ->
            IF sub.err # "nil" THEN MatReturn(NoElement, sub.err)
            ELSE MatSub("name", [fr EXCEPT !.dim = sub])
      [] fr.pc = "name" ->
            IF sub.err \notin {"nil", "EOF"} THEN MatReturn(NoElement, sub.err)
            ELSE IF Unsupported(fr.af.class) THEN MatReturn(NoElement, "panic")
            ELSE IF fr.af.class = mxCELL THEN MatSub("cell", [fr EXCEPT !.name = sub])
            ELSE MatSub("real", [fr EXCEPT !.name = sub])
      [] fr.pc = "real" ->
            IF sub.err # "nil" THEN MatReturn(NoElement, sub.err)
            ELSE IF fr.af.flags.isComplex THEN MatSub("imag", [fr EXCEPT !.pr = sub])
            ELSE MatReturned(miMatrixValue(fr.af, fr.dim, fr.name, sub, "nil"))
      [] fr.pc = "imag" ->
            MatReturned(miMatrixValue(fr.af, fr.dim, fr.name, fr.pr, sub.err))

\* miMatrix takes the step x
RunMat(x) ==
    IF x.to = "return" THEN RunTo(Pop(stack), [op |-> "miMatrix", m |-> x.m, err |-> x.err])
    ELSE IF x.to = "cell"
    THEN RunTo(Append(SetTop(stack, [x.fr EXCEPT !.pc = "cell", !.stage = "call"]),
                      Pass(Top.rdr)),
               NoRet)
    ELSE RunTo(SetTop(stack, [x.fr EXCEPT !.pc = x.to, !.stage = "start"]), NoRet)

\* the reader of a sub-element on what it decided on its tag t
RunSubHead(t, h) ==
    IF h.done THEN RunMat(MatNext(Top, h.sub))
    ELSE RunTo(Append(SetTop(stack, [Top EXCEPT !.stage = "data", !.t = t]), Bytes(h.p)), NoRet)

RunSubTagged(t) == RunSubHead(t, SubTag(Top.pc, t))

\* the reader of a sub-element after readTag: its return, or its
\* readAllBytes of the payload
RunSubTag ==
    /\ stack # <<>>
    /\ Top.fn = "miMatrix" /\ Top.stage = "tag"
    /\ ret.op = "readAllBytes"
    /\ RunSubTagged(readTagBytes(bo, Answer))

\* the reader of a sub-element after its readAllBytes of the payload, and
\* miMatrix on what it returns
RunSubData ==
    /\ stack # <<>>
    /\ Top.fn = "miMatrix" /\ Top.stage = "data"
    /\ ret.op = "readAllBytes"
    /\ RunMat(MatNext(Top, SubData(Top.pc, Top.t, Answer)))

\* miMatrix, cell, after its readAllElements on the rest of the payload
RunCell ==
    /\ stack # <<>>
    /\ Top.fn = "miMatrix" /\ Top.pc = "cell"
    /\ ret.op = "readAllElements"
    /\ RunMat(MatReturned(miMatrixCell(Top.af, Top.dim, Top.name, ret)))

\* a cell of a cell and of compressed elements
ItNest == Cell(NameZ, <<ItZ, Cell(NameD, <<ItC>>)>>)

\* a complex matrix
ItComplex == [ItA EXCEPT !.fbits = 4, !.hasImag = TRUE, !.imag = Rev(ItA.data)]

\* the elements of the longer streams, and those that come alone
RunItems == {ItB, ItZ}
RunSingles ==
    {ItNest, ItEmpty, ItSmall, ItPlain, ItDamaged, ItShort, ItCut, ItCell, ItStruct, ItComplex,
     Compressed(<<ItC, ItB>>), Compressed(<<>>)}

RunBodies ==
    UNION {[1..k -> RunItems] : k \in 0..MaxElems}
    \cup {<<it>> : it \in RunSingles}
    \cup {<<ItNest, ItB>>, <<ItCell, ItZ>>}

\* streams of elements, whole and cut, on sources that read in full, that
\* report the end with the last bytes, and that hand out a few bytes at a time
RunInputs ==
    {In("stream", h, b, 0, s[1], s[2]) :
        h \in {HdrLE, HdrBE},
        b \in RunBodies,
        s \in {<<0, FALSE>>, <<0, TRUE>>, <<MaxChunk, FALSE>>, <<MaxChunk - 2, TRUE>>}}
    \cup ElementInputs

InitRun ==
    /\ input \in RunInputs
    /\ r = Source(input)
    /\ f = NoFile
    /\ ret = NoRet
    /\ pass = "none"
    /\ calls = 0
    /\ stack = <<Pass(Source(input))>>

NextRun ==
    \/ RunTurn
    \/ RunRead
    \/ RunReadEnd
    \/ RunTag
    \/ RunPayload
    \/ RunNested
    \/ RunMatrix
    \/ RunNext
    \/ RunSub
    \/ RunSubTag
    \/ RunSubData
    \/ RunCell

\* the pass runs in one goroutine, which takes its next step as long as there is one
SpecRun == InitRun /\ [][NextRun]_vars /\ WF_vars(NextRun)

(***************************** what was written *****************************)

\* a compressed item stands for the one element it wraps
Unwrap(it) == IF it.k = "compressed" THEN it.sub[1] ELSE it

\* the matrices among the items, compressed ones unwrapped, in stream order
RECURSIVE Matrices(_)
Matrices(items) ==
    IF items = <<>> THEN <<>>
    ELSE IF Unwrap(Head(items)).k = "matrix" THEN <<Unwrap(Head(items))>> \o Matrices(Tail(items))
    ELSE Matrices(Tail(items))

\* the dimensions written for an item
WrittenDims(it) == [i \in 1..Len(it.dims) |-> Val("int32", <<0, 0, 0, it.dims[i]>>)]

\* the scalars written for a numeric item: one per width of its data type
WrittenScalars(order, it) ==
    [i \in 1..(Len(it.data) \div NumBytes(it.dt)) |->
        Val(GoType(it.dt),
            Ordered(order, Slice(it.data, (i - 1) * NumBytes(it.dt), i * NumBytes(it.dt)),
                    NumBytes(it.dt)))]

\* the Matrix a matrix item with no flag bits describes
RECURSIVE Written(_, _)
Written(order, it) ==
    Matrix(it.name, Flags(FALSE, FALSE, FALSE), it.class, WrittenDims(it),
           IF it.class = mxCELL
           THEN [i \in 1..Len(it.sub) |-> Written(order, Unwrap(it.sub[i]))]
           ELSE WrittenScalars(order, it))

\* item i is the last of ms with its name
IsLast(ms, i) == \A j \in (i + 1)..Len(ms) : ms[j].name # ms[i].name

(********************************* the claims *******************************)

\* C1: once a lookup has run the full-decode pass (hasReadAll is set), every
\* later step leaves the byte source and the File as they are, and a later
\* GetVar or GetVarsNames answers from that same name -> Matrix mapping.
C1_ReadOnce ==
    [][f.hasReadAll =>
          /\ r' = r
          /\ f' = f
          /\ (ret'.op = "GetVar" /\ calls' = calls + 1) =>
                /\ ~ret'.panic
                /\ ret'.found = (ret'.name \in DOMAIN f.vars)
                /\ ret'.found => ret'.m = f.vars[ret'.name]
          /\ (ret'.op = "GetVarsNames" /\ calls' = calls + 1) =>
                /\ ~ret'.panic
                /\ ret'.names = DOMAIN f.vars]_vars

\* a second lookup found a variable on a File the first lookup had read
C1_Witness ==
    /\ calls >= 2
    /\ pass = "nil"
    /\ f.hasReadAll
    /\ ret.op = "GetVar"
    /\ ret.found

\* C2: after a full-decode pass that failed, with an error or a panic, the
\* File is as before the pass: hasReadAll is false and the mapping is empty.
C2_FailedPassLeavesUnread ==
    pass \in {"error", "panic"} => (~f.hasReadAll /\ f.vars = <<>>)

\* C3: a lookup whose full-decode pass returned an error answers otherwise
\* than a lookup on a decoded file that lacks the name (nil, false), or that
\* has no variables (nil).
C3_FailureIsTold ==
    /\ (pass = "error" /\ ret.op = "GetVar") => (ret.panic \/ ret.found)
    /\ (pass = "error" /\ ret.op = "GetVarsNames") => (ret.panic \/ ~ret.isNil)

\* C4: after a successful pass over a file of matrix elements (some of them
\* compressed, some with an empty payload), the mapping holds the name of
\* every matrix written and no other name but the empty one, and each name
\* maps to the last matrix written with it.
C4_RegistryIsWhatWasWritten ==
    (/\ input.k = "file"
     /\ Layout(input.hdr) # BigEndianWords
     /\ \A i \in 1..Len(input.body) : input.body[i].k \in {"matrix", "empty", "compressed"}
     /\ f.hasReadAll
     /\ pass = "nil")
    => /\ \A i \in 1..Len(Matrices(input.body)) :
             /\ Matrices(input.body)[i].name \in DOMAIN f.vars
             /\ IsLast(Matrices(input.body), i) =>
                   f.vars[Matrices(input.body)[i].name] = Written(bo, Matrices(input.body)[i])
       /\ \A n \in DOMAIN f.vars :
             n = <<>> \/ \E i \in 1..Len(Matrices(input.body)) : Matrices(input.body)[i].name = n

\* C5: NewFileFromReader fails when the prefix is not "MATLAB ", the level
\* (trimmed as the code trims it) is not "5.0" or the marker is neither "IM"
\* nor "MI"; when it succeeds Endianess is the marker's order; and a body of
\* numeric matrices written in that order throughout then decodes to the
\* classes and dimensions written.
C5_HeaderAndOrder ==
    (input.k = "file" /\ ret # NoRet)
    => /\ (\/ input.hdr.prefix # TxtMATLAB
           \/ TrimSpace(input.hdr.level) # Txt50
           \/ input.hdr.marker \notin {TxtIM, TxtMI}) => ~f.ok
       /\ f.ok => /\ input.hdr.marker \in {TxtIM, TxtMI}
                  /\ f.Header.Endianess = BodyOrder(input.hdr)
       /\ (/\ f.hasReadAll
           /\ Layout(input.hdr) # BigEndian
           /\ \A i \in 1..Len(input.body) :
                 input.body[i].k = "matrix" /\ input.body[i].class \notin {mxCELL, mxSTRUCT})
          => /\ pass = "nil"
             /\ \A i \in 1..Len(input.body) :
                   /\ input.body[i].name \in DOMAIN f.vars
                   /\ IsLast(input.body, i) =>
                         /\ f.vars[input.body[i].name].Class = input.body[i].class
                         /\ f.vars[input.body[i].name].Dimension = WrittenDims(input.body[i])

\* the text the claim C6 says Header.String returns for a platform and a timestamp
HeaderText(platform, ts) ==
    <<77,65,84,76,65,66,32,53,46,48,32,77,65,84,45,102,105,108,101,44,32,
      80,108,97,116,102,111,114,109,58,32>>
    \o platform \o <<44,32,67,114,101,97,116,101,100,32,111,110,58,32>> \o ts

\* C6: for a file whose header text is "MATLAB 5.0 MAT-file, Platform: <p>,
\* Created on: <t>" and whose marker is "IM", Header.String() is that text.
C6_HeaderTextRoundTrip ==
    (/\ ret.op = "String"
     /\ input.cut = 0
     /\ input.hdr.prefix = TxtMATLAB
     /\ input.hdr.level = Txt50
     /\ input.hdr.comma
     /\ input.hdr.ts = TsGood
     /\ input.hdr.marker = TxtIM)
    => ret.s = HeaderText(input.hdr.platform, input.hdr.ts)

C8_CellChildren ==
    (/\ ret.op = "miMatrix"
     /\ input.body[1].class = mxCELL
     /\ \A i \in 1..Len(input.body[1].sub) : input.body[1].sub[i].k # "compressed")
    => /\ (\A i \in 1..Len(input.body[1].sub) : input.body[1].sub[i].k = "matrix")
             => ret.err = "nil"
       /\ ret.err = "nil" =>
             /\ \A i \in 1..Len(input.body[1].sub) : input.body[1].sub[i].k \in {"matrix", "empty"}
             /\ Len(ret.m.value) = Len(input.body[1].sub)
             /\ \A i \in 1..Len(input.body[1].sub) :
                   input.body[1].sub[i].k = "matrix"
                      => ret.m.value[i] = Written(bo, input.body[1].sub[i])

\* C9: DoubleArray on a decoded Matrix of class double or single, and
\* IntArray on one of an integer class, do not panic.
C9_ArraysDoNotFail ==
    /\ (ret.op = "DoubleArray" /\ ret.m.Class \in {mxDOUBLE, mxSINGLE}) => ~ret.res.panic
    /\ (ret.op = "IntArray" /\ ret.m.Class \in mxINT8..mxUINT64) => ~ret.res.panic

\* C10: a readAllBytes(p) that succeeds returns p bytes and moves the cursor
\* of its source by p, and a readTag that succeeds moves it by 8, also on a
\* source that hands out fewer bytes than asked for.
C10_ExactConsumption ==
    /\ (ret.op = "readAllBytes" /\ ret.err = "nil")
          => (Len(ret.buf) = ret.p /\ r.pos = ret.start + ret.p)
    /\ (ret.op = "readTag" /\ ret.err = "nil") => r.pos = ret.start + 8

\* the elements of a stream's description are all whole
WholeItems(body) == \A i \in 1..Len(body) : body[i].k \in {"matrix", "compressed", "plain"}

\* the bytes of a stream end where one of its elements ends
EndsAtBoundary(in) ==
    \E k \in 0..Len(in.body) :
        Len(Source(in).data) = Len(EncItems(Layout(in.hdr), SubSeq(in.body, 1, k)))

\* C11: readAllElements returns without error only when the stream ended
\* exactly where an element ends: a stream that ends after a tag, inside a
\* payload or inside the sub-elements of a matrix makes it fail.
C11_CleanEndOnlyAtBoundary ==
    (input.k = "stream" /\ calls = 1 /\ ret.op = "readAllElements" /\ ret.err = "nil")
    => (WholeItems(input.body) /\ EndsAtBoundary(input))

\* the bytes a payload of len bytes takes with its padding
PaddedLen(len) == 8 * ((len + 7) \div 8)

\* the same input with the padding of its first element made of zero bytes
ZeroFilled(in) == [in EXCEPT !.body[1].fill = 0]

\* the small element readElement makes of a small item
WrittenSmall(order, it) == SmallDataElement(it.dt, WrittenScalars(order, it))

\* C12: readElement on a normal-tag element of declared length L, of a type
\* other than matrix and compressed, takes 8 * ceil(L / 8) payload bytes after
\* the tag and returns, so that the next readElement starts at the tag that
\* follows, and what it returns does not depend on the padding bytes.
C12_PaddingInvariant ==
    (input.k = "element" /\ input.body[1].k = "padded" /\ ret.op = "readElement")
    => /\ calls = 1 =>
             /\ r.pos = 8 + PaddedLen(Len(input.body[1].data))
             /\ ret.err # "panic"
             /\ ret.el = readElement(bo, Source(ZeroFilled(input))).el
             /\ ret.err = readElement(bo, Source(ZeroFilled(input))).err
       /\ ret.start = 8 + PaddedLen(Len(input.body[1].data))
             => (ret.err = "nil" /\ ret.el = WrittenSmall(bo, input.body[2]))

\* C13: readElement on a normal-tag element of a fixed-width type T and
\* declared length L returns an element of type T whose value is the
\* L / width(T) scalars of the first L payload bytes, in stream order.
C13_OneScalarPerChunk ==
    (input.k = "element" /\ input.body[1].k = "padded" /\ ret.op = "readElement" /\ calls = 1)
    => /\ ret.err = "nil"
       /\ Type(ret.el) = input.body[1].dt
       /\ ret.el.value = WrittenScalars(bo, input.body[1])

\* the 32-bit word of four bytes in byte order order
WrittenWord(order, b) ==
    IF order = LittleEndian THEN b[1] + 256 * b[2] + 65536 * b[3] + 16777216 * b[4]
    ELSE b[4] + 256 * b[3] + 65536 * b[2] + 16777216 * b[1]

\* C14: readTag on 8 bytes whose length half is not zero returns a small
\* element of the type in the other half whose value is made of bytes 4-7
\* alone, a length of 0, and takes no byte after the 8; on 8 bytes whose length
\* half is zero it returns no small element, and the two 32-bit words as type
\* and length.
C14_SmallOrNormalTag ==
    (input.k = "element" /\ input.body[1].k = "tag" /\ ret.op = "readTag" /\ calls = 1)
    => /\ ret.err = "nil"
       /\ r.pos = 8
       /\ input.body[1].keep # 0 =>
             /\ ret.sde.kind = "sde"
             /\ ret.sde.typ = input.body[1].dt
             /\ ret.len = 0
             /\ \E n \in 0..4 :
                   ret.sde.value
                      = WrittenScalars(bo, [dt |-> input.body[1].dt,
                                            data |-> SubSeq(input.body[1].data, 1, n)])
       /\ input.body[1].keep = 0 =>
             /\ ret.sde = NoElement
             /\ ret.typ = WrittenWord(bo, SubSeq(r.data, 1, 4))
             /\ ret.len = WrittenWord(bo, SubSeq(r.data, 5, 8))

\* C15: readElement on a compressed element takes exactly the declared
\* length of raw bytes; it succeeds only if the inflated stream holds exactly
\* one element, and then returns that element; if the inflated stream holds no
\* element or more than one, it fails and returns no element.
C15_CompressedHoldsOne ==
    (input.k = "element" /\ input.body[1].k = "compressed" /\ ret.op = "readElement" /\ calls = 1)
    => /\ r.pos = 8 + Len(Deflate(EncItems(Layout(input.hdr), input.body[1].sub)))
       /\ ret.err = "nil" =>
             /\ Len(input.body[1].sub) = 1
             /\ ret.el = Written(bo, input.body[1].sub[1])
       /\ Len(input.body[1].sub) # 1 => (ret.err # "nil" /\ ret.el = NoElement)

\* C16: the three flags of a decoded Matrix are the three bits written,
\* each on its own: logical is bit 9, global bit 10, complex bit 11 of the
\* flags-and-class word, whatever the other two are; the class is its low byte.
C16_FlagsAreBits ==
    (input.k = "payload" /\ ret.op = "miMatrix" /\ ret.err = "nil")
    => /\ ret.m.flags.isLogical = (input.body[1].fbits % 2 = 1)
       /\ ret.m.flags.isGlobal = ((input.body[1].fbits \div 2) % 2 = 1)
       /\ ret.m.flags.isComplex = ((input.body[1].fbits \div 4) % 2 = 1)
       /\ ret.m.Class = input.body[1].class

\* a sub-element of the item is of another type than the format has there
WrongType(it) ==
    \/ it.flagsType # DTmiUINT32
    \/ it.flagsLen # 8
    \/ it.dimsType # DTmiINT32
    \/ it.nameType # DTmiINT8

\* C17: a matrix whose array flags tag is not uint32 or not of length 8,
\* whose dimensions tag is not int32, or whose name, under a normal tag or as a
\* small element, is not int8, makes miMatrix return an error value: it
\* neither panics nor returns a Matrix.
C17_WrongTypeIsAnError ==
    (input.k = "payload" /\ ret.op = "miMatrix" /\ WrongType(input.body[1]))
    => ret.err = "error"

\* the item is a numeric or character matrix as the format has it, real
IsRealNumeric(it) ==
    /\ it.k = "matrix"
    /\ it.class \in {mxCHAR} \cup (mxDOUBLE..mxUINT64)
    /\ ~WrongType(it)
    /\ it.fbits < 4
    /\ ~it.hasImag

\* C18: miMatrix on a numeric or character matrix whose real part has type
\* T and L payload bytes, under a normal tag with any L from 0 on or as a
\* small element, returns a Matrix whose value is the L / width(T) scalars
\* written, in stream order.
C18_RealPartScalars ==
    (input.k = "payload" /\ ret.op = "miMatrix" /\ IsRealNumeric(input.body[1]))
    => /\ ret.err = "nil"
       /\ ret.m.value = WrittenScalars(bo, input.body[1])

\* C19: miMatrix on a complex matrix reads the real part, reads the
\* imaginary part behind it and drops it, and returns the value it returns
\* for the real part alone, for every length L of the parts.
C19_ImaginaryPartDropped ==
    (input.k = "payload" /\ ret.op = "miMatrix" /\ input.body[1].hasImag)
    => /\ ret.err = "nil"
       /\ ret.m.value = WrittenScalars(bo, input.body[1])
       /\ ret.m.flags.isComplex

\* the Matrix m has at least two dimensions
TwoDimensions(m) == m.kind = "matrix" => Len(m.Dimension) >= 2

\* C20: every Matrix miMatrix returns, and every Matrix nested in one as a
\* cell, has at least 2 dimensions; the dimensions of the Matrix returned are
\* the 32-bit integers of the dimensions payload, one per 4 bytes, in stream
\* order.
C20_DimensionVector ==
    (input.k = "payload" /\ ret.op = "miMatrix" /\ ret.err = "nil")
    => /\ TwoDimensions(ret.m)
       /\ input.body[1].class = mxCELL => \A i \in 1..Len(ret.m.value) : TwoDimensions(ret.m.value[i])
       /\ ret.m.Dimension = WrittenDims(input.body[1])

\* the pass is over: the outermost readAllElements handed back its elements
\* or its failure, and no call is in progress
RunDone == stack = <<>> /\ ret.op = "readAllElements"

\* a turn of the loop of readAllBytes takes at least one byte from its source
\* or ends the call
ReadTurnConsumes ==
    (stack # <<>> /\ Top.fn = "readAllBytes" /\ Top.remaining > 0)
    => \/ Len(stack') < Len(stack)
       \/ stack'[Len(stack) - 1].rdr.pos > Below.rdr.pos

\* a turn of the loop of readAllElements after which the loop goes on has
\* taken at least one byte from its source
LoopTurnConsumes ==
    (stack # <<>> /\ Top.fn = "readAllElements" /\ Top.pc = "el")
    => \/ Len(stack') < Len(stack)
       \/ Top.rdr.pos > Top.at

\* calls begin and end one at a time, innermost first, and a step leaves alone
\* every call in progress but the innermost and, under a readAllBytes, the
\* readAllElements whose source it reads
StrictlyNested ==
    /\ Len(stack') \in {Len(stack) - 1, Len(stack), Len(stack) + 1}
    /\ \A i \in 1..Len(stack) :
           (i < Len(stack) /\ ~(i = Len(stack) - 1 /\ Top.fn = "readAllBytes"))
           => (i <= Len(stack') /\ stack'[i] = stack[i])

\* the pass that begins on the children of a cell has fewer bytes to read
\* than its caller took from its own source for the element under way
CellPassBounded ==
    (Len(stack') = Len(stack) + 1 /\ stack'[Len(stack')].fn = "readAllElements"
     /\ Top.fn = "miMatrix")
    => Len(stack'[Len(stack')].rdr.data) - stack'[Len(stack')].rdr.pos
           < Below.rdr.pos - Below.at

RunProgress ==
    /\ ReadTurnConsumes
    /\ LoopTurnConsumes
    /\ StrictlyNested
    /\ CellPassBounded

\* C21: on every finite source the full-decode pass, with its nested passes
\* over inflated streams and over the children of cells, comes to an end with
\* an element list or a failure; every turn of the loop of readAllBytes and
\* every turn of the element loop takes at least one byte from its source or
\* ends its loop; nested passes begin and end strictly inside the turn that
\* called them, on a source of their own that is fixed when they begin, and
\* leave the calls around them untouched.
C21_PassTerminates == <>RunDone /\ [][RunProgress]_vars

\* a pass over a cell that holds a compressed element and a cell has ended
\* with its one element, on a source that hands out a few bytes at a time
C21_Witness ==
    /\ RunDone
    /\ input.k = "stream"
    /\ input.body = <<ItNest>>
    /\ input.chunk = MaxChunk
    /\ ret.err = "nil"
    /\ Len(ret.res) = 1

====
